---- MODULE Spec2Model ----
(***************************************************************************)
(* Model of the Montana cadastral geocode -> address lookup service:       *)
(*   src/app.py                          the FastAPI GET /lookup endpoint  *)
(*   src/server/scripts/*.py             the five command-line variants    *)
(* Strings are sequences of one-character strings, so that the regular     *)
(* expressions, strip() and " ".join(s.split()) are computed as the code   *)
(* computes them.                                                          *)
(***************************************************************************)
EXTENDS Integers, Sequences, FiniteSets, TLC

VARIABLES
    mode,       \* which entry point this behaviour exercises: "api", "cli", "val"
    singleton,  \* app.py playwright_singleton: [pw, browser], 0 is None
    drivers,    \* number of Playwright drivers started by app.py get_browser
    browsers,   \* number of browser processes launched by app.py get_browser
    contexts,   \* app.py browsing contexts, named by the request that made them
    pages,      \* app.py pages, named by the request that made them
    reqs,       \* app.py in-flight / finished requests, indexed by request id
    cli,        \* the one command-line run: script, argv, position, resources
    val         \* the validator harness: input string and the two verdicts

vars == <<mode, singleton, drivers, browsers, contexts, pages, reqs, cli, val>>

None == <<"None">>

(***************************************************************************)
(* Characters and Python str helpers                                       *)
(***************************************************************************)
LowerLetters == <<"a","b","c","d","e","f","g","h","i","j","k","l","m",
                  "n","o","p","q","r","s","t","u","v","w","x","y","z">>
UpperLetters == <<"A","B","C","D","E","F","G","H","I","J","K","L","M",
                  "N","O","P","Q","R","S","T","U","V","W","X","Y","Z">>
Digits == {"0","1","2","3","4","5","6","7","8","9"}

\* str.upper() on one character
ToUpper(c) ==
    IF \E i \in 1..26 : LowerLetters[i] = c
    THEN UpperLetters[CHOOSE i \in 1..26 : LowerLetters[i] = c]
    ELSE c

IsLetter(c) == \E i \in 1..26 : LowerLetters[i] = c \/ UpperLetters[i] = c

\* the characters matched by \s, and removed by str.strip() / str.split()
IsSpace(c) == c \in {" ", "\t", "\n", "\r"}

IsDigit(c) == c \in Digits

SubStr(s, i, j) == [k \in 1..(j - i) |-> s[i + k - 1]]   \* s[i-1:j-1] in Python

\* str.strip()
Strip(s) ==
    IF \A k \in 1..Len(s) : IsSpace(s[k]) THEN <<>>
    ELSE LET a == CHOOSE k \in 1..Len(s) :
                      ~IsSpace(s[k]) /\ \A m \in 1..(k - 1) : IsSpace(s[m])
             b == CHOOSE k \in 1..Len(s) :
                      ~IsSpace(s[k]) /\ \A m \in (k + 1)..Len(s) : IsSpace(s[m])
         IN  SubStr(s, a, b + 1)

\* " ".join(s.split()): runs of whitespace become one space, ends are trimmed
RECURSIVE Collapse(_)
Collapse(s) ==
    IF s = <<>> THEN <<>>
    ELSE IF IsSpace(Head(s))
         THEN IF Len(s) > 1 /\ IsSpace(s[2]) THEN Collapse(Tail(s))
              ELSE <<" ">> \o Collapse(Tail(s))
         ELSE <<Head(s)>> \o Collapse(Tail(s))

NormalizeWs(s) == Collapse(Strip(s))

\* lit occurs in s at position i (re.I when ci)
LitAt(s, i, lit, ci) ==
    /\ i >= 1
    /\ i + Len(lit) - 1 <= Len(s)
    /\ \A k \in 1..Len(lit) :
          IF ci THEN ToUpper(s[i + k - 1]) = ToUpper(lit[k])
                ELSE s[i + k - 1] = lit[k]

\* Python's `sub in s`
Contains(s, sub) == \E i \in 1..(Len(s) + 1) : LitAt(s, i, sub, FALSE)

\* the positions \s* can stop at when it starts at i
AfterWs(s, i) ==
    {j \in i..(Len(s) + 1) : \A k \in i..(j - 1) : IsSpace(s[k])}

AllDigits(s, i, n) ==
    /\ i + n - 1 <= Len(s)
    /\ \A k \in i..(i + n - 1) : IsDigit(s[k])

(***************************************************************************)
(* The common tail of every address pattern of the repository:             *)
(*      ,\s*MT\s*\d{5}(?:-\d{4})?                                          *)
(* TailEnds(s, i, ci) is the set of positions just after a match that      *)
(* starts at i (two positions when the optional "-dddd" is present).       *)
(***************************************************************************)
StateCode == <<"M", "T">>

TailEnds(s, i, ci) ==
    IF ~(i >= 1 /\ i <= Len(s) /\ s[i] = ",") THEN {}
    ELSE UNION {
           UNION {
             {k + 5} \cup
               (IF k + 5 <= Len(s) /\ s[k + 5] = "-" /\ AllDigits(s, k + 6, 4)
                THEN {k + 10} ELSE {})
             : k \in {k \in AfterWs(s, j + 2) : AllDigits(s, k, 5)} }
           : j \in {j \in AfterWs(s, i + 1) : LitAt(s, j, StateCode, ci)} }

\* `$` without re.MULTILINE: the end of the string, or just before a final "\n"
AtEnd(s, e) == e = Len(s) + 1 \/ (e = Len(s) /\ s[Len(s)] = "\n")

\* re.search(r",\s*MT\s*\d{5}(?:-\d{4})?$", s, flags)
SearchTailAtEnd(s, ci) ==
    \E i \in 1..Len(s) : \E e \in TailEnds(s, i, ci) : AtEnd(s, e)

(***************************************************************************)
(* The Address Validator, once per script that defines it                  *)
(***************************************************************************)
\* the mutant of looks_like_full_address: the "$" anchor is lost
looks_like_full_address_unanchored(s) ==
    /\ s # None
    /\ s # <<>>
    /\ \E i \in 1..Len(s) : TailEnds(s, i, TRUE) # {}

\* property_lookup.py: `if not s: return False`, then the regex with re.I
looks_like_full_address(s) ==
    /\ s # None
    /\ s # <<>>
    /\ SearchTailAtEnd(s, TRUE)

\* the mutant of api_looks_like_full_address: the length test is lost
api_looks_like_full_address_nolen(s) ==
    /\ s # None
    /\ s # <<>>
    /\ SearchTailAtEnd(s, TRUE)

MinAddressLen == 10

\* property_lookup_api.py: `if not s or len(s) < 10: return False`, then the regex
api_looks_like_full_address(s) ==
    /\ s # None
    /\ s # <<>>
    /\ Len(s) >= MinAddressLen
    /\ SearchTailAtEnd(s, TRUE)

\* simple_property_lookup.py: the regex without re.I (the function is never called)
simple_looks_like_full_address(s) == SearchTailAtEnd(s, FALSE)

(***************************************************************************)
(* The capture group shared by the scanning patterns,                      *)
(*      ([A-Z0-9 .#'-]+?,\s*MT\s*\d{5}(?:-\d{4})?)      class "addr"       *)
(*      ([^,\n]+,\s*MT\s*\d{5}(?:-\d{4})?)              class "line"       *)
(* always under re.I.  Neither class holds the comma, so the run of class  *)
(* characters ends at the first character outside the class, which must be *)
(* the comma the tail starts with.                                         *)
(***************************************************************************)
InClass(c, cls) ==
    IF cls = "addr"
    THEN IsLetter(c) \/ IsDigit(c) \/ c \in {" ", ".", "#", "'", "-"}
    ELSE c \notin {",", "\n"}

SetMax(S) == CHOOSE x \in S : \A y \in S : y <= x
SetMin(S) == CHOOSE x \in S : \A y \in S : x <= y

\* the position after the group when it matches at g, 0 when it does not
GroupEnd(s, g, cls) ==
    IF g < 1 \/ g > Len(s) THEN 0
    ELSE LET c == SetMin({k \in g..(Len(s) + 1) :
                              k = Len(s) + 1 \/ ~InClass(s[k], cls)})
         IN  IF c > g /\ TailEnds(s, c, TRUE) # {}
             THEN SetMax(TailEnds(s, c, TRUE))
             ELSE 0

\* where LABEL\s*(GROUP) matches with the label at a: the group's start, 0 if none
\* (\s* is greedy: the longest run of whitespace after which the group matches)
LabelGroupStart(s, a, label, cls) ==
    IF ~LitAt(s, a, label, TRUE) THEN 0
    ELSE LET js == {j \in AfterWs(s, a + Len(label)) : GroupEnd(s, j, cls) # 0}
         IN  IF js = {} THEN 0 ELSE SetMax(js)

\* re.search(LABEL\s*(GROUP), s, re.I).group(1), None when there is no match.
\* An optional (?:Property\s+)? before the label moves the start of the match,
\* never the label occurrence that is found, so the same operator serves it.
SearchLabelGroup(s, label, cls) ==
    LET as == {a \in 1..Len(s) : LabelGroupStart(s, a, label, cls) # 0}
    IN  IF as = {} THEN None
        ELSE LET j == LabelGroupStart(s, SetMin(as), label, cls)
             IN  SubStr(s, j, GroupEnd(s, j, cls))

\* re.findall(GROUP, s, re.I) from position p on: the non-overlapping matches
RECURSIVE FindAllGroupFrom(_, _, _)
FindAllGroupFrom(s, p, cls) ==
    LET gs == {g \in p..Len(s) : GroupEnd(s, g, cls) # 0}
    IN  IF gs = {} THEN <<>>
        ELSE LET g == SetMin(gs)
                 e == GroupEnd(s, g, cls)
             IN  <<SubStr(s, g, e)>> \o FindAllGroupFrom(s, e, cls)

FindAllGroup(s, cls) == FindAllGroupFrom(s, 1, cls)

(***************************************************************************)
(* The cadastral page as the lookups see it.  A page is a flat list of     *)
(* elements under <body>: [tag, text, pre].  text is the element's         *)
(* textContent; innerText is the rendered text, in which the browser       *)
(* collapses whitespace unless the element is preformatted (pre).          *)
(***************************************************************************)
T_PropertyAddress == <<"P","r","o","p","e","r","t","y"," ","A","d","d","r","e","s","s">>
T_AddressColon == <<"A","d","d","r","e","s","s",":">>
T_Address == <<"A","d","d","r","e","s","s">>
T_PhysicalColon == <<"P","h","y","s","i","c","a","l"," ","A","d","d","r","e","s","s",":">>
T_PropertyAddressColon == <<"P","r","o","p","e","r","t","y"," ","A","d","d","r","e","s","s",":">>

Elem(tag, text) == [tag |-> tag, text |-> text, pre |-> FALSE]
PreElem(tag, text) == [tag |-> tag, text |-> text, pre |-> TRUE]

\* element.textContent / element.innerText
text_content(el) == el.text
inner_text(el) == IF el.pre THEN el.text ELSE NormalizeWs(el.text)

\* page.text_content("body"): the texts, concatenated
RECURSIVE body_text_content(_)
body_text_content(dom) ==
    IF dom = <<>> THEN <<>>
    ELSE Head(dom).text \o body_text_content(Tail(dom))

\* page.inner_text("body"): the rendered texts, a block element ending its line
RECURSIVE body_inner_text(_)
body_inner_text(dom) ==
    IF dom = <<>> THEN <<>>
    ELSE inner_text(Head(dom))
         \o (IF Head(dom).tag = "div" /\ Len(dom) > 1 THEN <<"\n">> ELSE <<>>)
         \o body_inner_text(Tail(dom))

\* the index of the first element after i that is a div (following-sibling::div[1])
NextDiv(dom, i) ==
    LET js == {j \in (i + 1)..Len(dom) : dom[j].tag = "div"}
    IN  IF js = {} THEN 0 ELSE SetMin(js)

\* the index of the next element after i of any tag (nextElementSibling, and
\* following::*[self::div or self::span][1] on a page of divs and spans)
NextElem(dom, i) == IF i + 1 <= Len(dom) THEN i + 1 ELSE 0

\* locator(xpath).first for an xpath "LABEL-TEST/following-sibling::div[1]":
\* the first, in document order, of the elements the xpath selects; 0 if none
FirstOf(S) == IF S \ {0} = {} THEN 0 ELSE SetMin(S \ {0})

\* //div[contains(., 'Property Address')]
DivsContaining(dom, lit) ==
    {i \in 1..Len(dom) : dom[i].tag = "div" /\ Contains(dom[i].text, lit)}

\* //div[normalize-space()='...'] and //div[normalize-space(text())='...']
DivsEqual(dom, lit) ==
    {i \in 1..Len(dom) : dom[i].tag = "div" /\ NormalizeWs(dom[i].text) = lit}

\* //*[self::div or self::span][normalize-space(text())='...']
ElemsEqual(dom, lit) ==
    {i \in 1..Len(dom) : NormalizeWs(dom[i].text) = lit}

\* get_by_text(lit, exact=False): case-insensitive substring of the normalized text
ElemsWithText(dom, lit) ==
    {i \in 1..Len(dom) :
        \E k \in 1..(Len(dom[i].text) + 1) :
            LitAt(NormalizeWs(dom[i].text), k, lit, TRUE)}

(***************************************************************************)
(* The result dictionaries of the command-line scripts                     *)
(***************************************************************************)
Success(address, geocode) ==
    [success |-> TRUE, address |-> address, geocode |-> geocode]
Failure(error) == [success |-> FALSE, error |-> error]

Raised == <<"raise">>     \* an exception leaving the block it was raised in

(***************************************************************************)
(* property_lookup.py get_property_address: the five extraction strategies *)
(* A strategy yields the address it returns, or None when control passes   *)
(* on.  `fault` says that a Playwright call of the strategy raises (the    *)
(* page crashed, an evaluation failed, a wait timed out).                  *)
(***************************************************************************)
\* the mutant of Strategy1: the sibling's text is returned unvalidated
Strategy1_unvalidated(dom, fault) ==
    IF fault \/ DivsContaining(dom, T_PropertyAddress) = {} THEN None
    ELSE LET v == FirstOf({NextDiv(dom, i) :
                              i \in DivsContaining(dom, T_PropertyAddress)})
         IN  IF v = 0 THEN None ELSE Strip(text_content(dom[v]))

\* lines 35-46: label div, its following sibling div, validated; except: pass
Strategy1(dom, fault) ==
    IF fault \/ DivsContaining(dom, T_PropertyAddress) = {} THEN None
    ELSE LET v == FirstOf({NextDiv(dom, i) :
                              i \in DivsContaining(dom, T_PropertyAddress)})
         IN  IF v = 0 THEN None
             ELSE LET address == Strip(text_content(dom[v]))
                  IN  IF looks_like_full_address(address) THEN address ELSE None

\* lines 49-54: the element each of ADDRESS_XPATHS selects first, 0 if none
AddressXPath(dom, n) ==
    CASE n = 1 -> FirstOf({NextDiv(dom, i) : i \in DivsEqual(dom, T_AddressColon)})
      [] n = 2 -> FirstOf({NextDiv(dom, i) :
                     i \in {k \in 1..Len(dom) :
                              /\ dom[k].tag = "div"
                              /\ Contains(NormalizeWs(dom[k].text), T_Address)}})
      [] n = 3 -> FirstOf({NextElem(dom, i) : i \in ElemsEqual(dom, T_AddressColon)})
      [] n = 4 -> FirstOf({NextDiv(dom, i) : i \in DivsEqual(dom, T_PropertyAddress)})

NumXPaths == 4

\* lines 56-65, one xpath: wait_for raises when nothing is selected (continue)
XPathCandidate(dom, n) ==
    IF AddressXPath(dom, n) = 0 THEN None
    ELSE LET text == NormalizeWs(Strip(inner_text(dom[AddressXPath(dom, n)])))
         IN  IF looks_like_full_address(text) THEN text ELSE None

\* lines 56-65: the first xpath whose text validates
Strategy2(dom, fault) ==
    LET hits == {n \in 1..NumXPaths : XPathCandidate(dom, n) # None}
    IN  IF fault \/ hits = {} THEN None
        ELSE XPathCandidate(dom, SetMin(hits))

\* lines 68-77: not inside a try of its own, so a raise leaves the strategies
Strategy3(dom, fault) ==
    IF fault THEN Raised
    ELSE LET all_text == body_text_content(dom)
             v == AddressXPath(dom, 4)
         IN  IF all_text # <<>> /\ Contains(all_text, T_PropertyAddress) /\ v # 0
             THEN LET address == Strip(text_content(dom[v]))
                  IN  IF looks_like_full_address(address) THEN address ELSE None
             ELSE None

\* lines 80-95: get_by_text, nextElementSibling.innerText; except: pass
Strategy4(dom, fault) ==
    IF fault \/ ElemsWithText(dom, T_PropertyAddress) = {} THEN None
    ELSE LET label == SetMin(ElemsWithText(dom, T_PropertyAddress))
             sib == NextElem(dom, label)
         IN  IF sib = 0 THEN None
             ELSE LET address == inner_text(dom[sib])
                  IN  IF address # <<>> /\ looks_like_full_address(Strip(address))
                      THEN Strip(address) ELSE None

\* lines 98-106: the regex over the page's innerText; except: pass
Strategy5(dom, fault) ==
    IF fault THEN None
    ELSE LET m == SearchLabelGroup(body_inner_text(dom), T_AddressColon, "addr")
         IN  IF m # None THEN NormalizeWs(m) ELSE None

NumStrategies == 5

Strategy(n, dom, faults) ==
    CASE n = 1 -> Strategy1(dom, 1 \in faults)
      [] n = 2 -> Strategy2(dom, 2 \in faults)
      [] n = 3 -> Strategy3(dom, 3 \in faults)
      [] n = 4 -> Strategy4(dom, 4 \in faults)
      [] n = 5 -> Strategy5(dom, 5 \in faults)

\* lines 33-108: the strategies in order; the first to return or raise decides
pl_extract(geocode, dom, faults) ==
    LET done == {n \in 1..NumStrategies : Strategy(n, dom, faults) # None}
    IN  IF done = {}
        THEN Failure("Address not found for the provided geocode")
        ELSE IF Strategy(SetMin(done), dom, faults) = Raised
             THEN Failure("Error processing geocode: strategy raised")
             ELSE Success(Strategy(SetMin(done), dom, faults), geocode)

(***************************************************************************)
(* simple_property_lookup.py get_property_address, after the page is       *)
(* fetched: soup.get_text() is the concatenated text of the document       *)
(***************************************************************************)
SimpleLabels == <<T_AddressColon, T_PhysicalColon, T_PropertyAddressColon>>

\* the first entry of a sequence of candidates that satisfies the length test
FirstLongerThan(matches, n) ==
    LET ok == {i \in 1..Len(matches) : Len(NormalizeWs(matches[i])) > n}
    IN  IF ok = {} THEN None ELSE NormalizeWs(matches[SetMin(ok)])

SimpleMinLen == 10

\* lines 42-73
simple_extract(geocode, dom) ==
    LET page_text == body_text_content(dom)
        hits == {i \in 1..Len(SimpleLabels) :
                    SearchLabelGroup(page_text, SimpleLabels[i], "addr") # None}
        matches == FindAllGroup(page_text, "addr")
    IN  IF hits # {}
        THEN Success(NormalizeWs(SearchLabelGroup(page_text,
                         SimpleLabels[SetMin(hits)], "addr")), geocode)
        ELSE IF FirstLongerThan(matches, SimpleMinLen) # None
             THEN Success(FirstLongerThan(matches, SimpleMinLen), geocode)
             ELSE Failure("No address found for geocode")

(***************************************************************************)
(* diagnostic_lookup.py get_property_address_diagnostic, lines 48-86       *)
(***************************************************************************)
diagnostic_extract(geocode, dom) ==
    LET page_text == body_inner_text(dom)
        m1 == SearchLabelGroup(page_text, T_AddressColon, "line")
        m2 == FindAllGroup(page_text, "addr")
    IN  IF ~Contains(page_text, geocode)
        THEN Failure("Geocode not found on page")
        ELSE IF m1 # None THEN Success(NormalizeWs(m1), geocode)
        ELSE IF m2 # <<>> THEN Success(NormalizeWs(m2[1]), geocode)
        ELSE Failure("Address pattern not found")

(***************************************************************************)
(* property_lookup_api.py                                                  *)
(***************************************************************************)
\* response.text of the page: each element as <tag>text</tag>
RECURSIVE RenderHtml(_)
RenderHtml(dom) ==
    IF dom = <<>> THEN <<>>
    ELSE LET el == Head(dom)
             tg == IF el.tag = "div" THEN <<"d","i","v">> ELSE <<"s","p","a","n">>
         IN  <<"<">> \o tg \o <<">">> \o el.text \o <<"<", "/">> \o tg \o <<">">>
             \o RenderHtml(Tail(dom))

\* LABEL\s*</[^>]*>\s*([^<]*(?:[A-Z0-9 .#'-]+?,\s*MT\s*\d{5}(?:-\d{4})?)) with the
\* label at a: <<start, end>> of the group, <<0, 0>> when there is no match.
\* [^<]* is greedy: the last place in the "<"-free run where the inner group matches.
TaggedGroup(s, a, label) ==
    IF ~LitAt(s, a, label, TRUE) THEN <<0, 0>>
    ELSE LET j1s == {j \in AfterWs(s, a + Len(label)) : LitAt(s, j, <<"<", "/">>, FALSE)}
         IN  IF j1s = {} THEN <<0, 0>>
             ELSE LET ts == {k \in (SetMin(j1s) + 2)..Len(s) : s[k] = ">"}
                  IN  IF ts = {} THEN <<0, 0>>
                      ELSE LET Q(j) == {q \in j..Len(s) :
                                          /\ \A k \in j..(q - 1) : s[k] # "<"
                                          /\ GroupEnd(s, q, "addr") # 0}
                               j2s == {j \in AfterWs(s, SetMin(ts) + 1) : Q(j) # {}}
                           IN  IF j2s = {} THEN <<0, 0>>
                               ELSE <<SetMax(j2s),
                                      GroupEnd(s, SetMax(Q(SetMax(j2s))), "addr")>>

\* re.findall of the tagged pattern from position p on
RECURSIVE FindAllTaggedFrom(_, _, _)
FindAllTaggedFrom(s, p, label) ==
    LET as == {a \in p..Len(s) : TaggedGroup(s, a, label) # <<0, 0>>}
    IN  IF as = {} THEN <<>>
        ELSE LET g == TaggedGroup(s, SetMin(as), label)
             IN  <<SubStr(s, g[1], g[2])>> \o FindAllTaggedFrom(s, g[2], label)

\* lines 120-134: every match of the three patterns, in the order they are tried
HttpCandidates(html) ==
    FindAllTaggedFrom(html, 1, T_AddressColon)
    \o FindAllTaggedFrom(html, 1, T_PropertyAddress)
    \o FindAllGroup(html, "addr")

\* lines 94-139: resp is [ok, dom]; ~ok when requests.get or raise_for_status raised
try_simple_http_scraping(geocode, resp) ==
    IF ~resp.ok THEN Failure("HTTP scraping failed: request raised")
    ELSE LET c == HttpCandidates(RenderHtml(resp.dom))
             ok == {i \in 1..Len(c) :
                      api_looks_like_full_address(NormalizeWs(Strip(c[i])))}
         IN  IF ok = {} THEN Failure("Address not found in HTML content")
             ELSE Success(NormalizeWs(Strip(c[SetMin(ok)])), geocode)

\* str.replace("-", "")
RECURSIVE RemoveHyphens(_)
RemoveHyphens(s) ==
    IF s = <<>> THEN <<>>
    ELSE (IF Head(s) = "-" THEN <<>> ELSE <<Head(s)>>) \o RemoveHyphens(Tail(s))

ToLower(c) ==
    IF \E i \in 1..26 : UpperLetters[i] = c
    THEN LowerLetters[CHOOSE i \in 1..26 : UpperLetters[i] = c]
    ELSE c

\* lines 48-53
geocode_variants(geocode) ==
    << geocode,
       RemoveHyphens(geocode),
       [k \in 1..Len(geocode) |-> ToUpper(geocode[k])],
       [k \in 1..Len(geocode) |-> ToLower(geocode[k])] >>

\* " ".join(parts)
RECURSIVE JoinSpace(_)
JoinSpace(parts) ==
    IF parts = <<>> THEN <<>>
    ELSE IF Len(parts) = 1 THEN parts[1]
    ELSE parts[1] \o <<" ">> \o JoinSpace(Tail(parts))

\* lines 75-84: the non-empty attributes, stripped, joined by one space
ArcAddress(attrs) ==
    JoinSpace(
        (IF attrs.AddressLine1 # <<>> THEN <<Strip(attrs.AddressLine1)>> ELSE <<>>)
     \o (IF attrs.AddressLine2 # <<>> THEN <<Strip(attrs.AddressLine2)>> ELSE <<>>)
     \o (IF attrs.CityStateZip # <<>> THEN <<Strip(attrs.CityStateZip)>> ELSE <<>>))

\* lines 44-92: arc is the ArcGIS service: [up, parcels, attrs].  A variant whose
\* request raises, or that has no feature, or whose address fails the validator,
\* passes to the next variant.
try_arcgis_api(geocode, arc) ==
    LET v == geocode_variants(geocode)
        ok == {i \in 1..Len(v) :
                 /\ arc.up
                 /\ v[i] \in arc.parcels
                 /\ ArcAddress(arc.attrs) # <<>>
                 /\ api_looks_like_full_address(ArcAddress(arc.attrs))}
    IN  IF ok = {} THEN Failure("No data found in ArcGIS API")
        ELSE Success(ArcAddress(arc.attrs), geocode)

KnownGeocode == <<"0","3","-","1","0","3","2","-","3","4","-","1","-","0","8","-","1","0","-","0","0","0","0">>
KnownGeocodeClean == <<"0","3","1","0","3","2","3","4","1","0","8","1","0","0","0","0","0">>
KnownAddress == <<"2","3","2","4"," ","R","E","H","B","E","R","G"," ","L","N"," ","B","I","L","L","I","N","G","S",","," ","M","T"," ","5","9","1","0","2">>

\* the mutant of try_known_properties_fallback: the hyphen-free form is not tried
try_known_properties_fallback_exact(geocode) ==
    IF geocode \in {KnownGeocode, KnownGeocodeClean}
    THEN Success(KnownAddress, geocode)
    ELSE Failure("Property data not available for geocode")

\* lines 141-161
try_known_properties_fallback(geocode) ==
    IF geocode \in {KnownGeocode, KnownGeocodeClean}
    THEN Success(KnownAddress, geocode)
    ELSE IF RemoveHyphens(geocode) \in {KnownGeocode, KnownGeocodeClean}
         THEN Success(KnownAddress, geocode)
         ELSE Failure("Property data not available for geocode")

\* lines 17-42: ArcGIS, then HTTP scraping, then the known properties
api_get_property_address(geocode, arc, resp) ==
    IF try_arcgis_api(geocode, arc).success THEN try_arcgis_api(geocode, arc)
    ELSE IF try_simple_http_scraping(geocode, resp).success
         THEN try_simple_http_scraping(geocode, resp)
         ELSE try_known_properties_fallback(geocode)

\* what one strategy of property_lookup_api.py did: its name and whether it
\* returned a success
Attempt(strategy, result) == [strategy |-> strategy, success |-> result.success]

\* the mutant of CalledInOrder: the known properties are consulted first
CalledFallbackFirst(a, h, k) ==
    IF k.success THEN <<k>>
    ELSE IF a.success THEN <<k, a>> ELSE <<k, a, h>>

\* lines 25-42: a strategy is called when the ones before it returned no
\* success; a, h, k are what ArcGIS, HTTP scraping and the known properties
\* do when called
CalledInOrder(a, h, k) ==
    IF a.success THEN <<a>>
    ELSE IF h.success THEN <<a, h>> ELSE <<a, h, k>>

\* lines 25-42: the strategies get_property_address calls, in the order it
\* calls them (a raise inside try_arcgis_api or try_simple_http_scraping is
\* turned into a failure by the strategy itself)
api_attempts(geocode, arc, resp) ==
    CalledInOrder(Attempt("arcgis", try_arcgis_api(geocode, arc)),
                  Attempt("http", try_simple_http_scraping(geocode, resp)),
                  Attempt("known", try_known_properties_fallback(geocode)))

(***************************************************************************)
(* property_lookup_requests.py lookup_property, lines 15-57                *)
(* web is what the site answers: [ok, initial, search]; ~ok when a request  *)
(* raised, else the two status codes                                       *)
(***************************************************************************)
HttpOk == 200

lookup_property(geocode, web) ==
    IF ~web.ok THEN Failure("Request failed: request raised")
    ELSE IF web.initial # HttpOk THEN Failure("Failed to access cadastral website")
    ELSE IF /\ web.search = HttpOk
            /\ (RemoveHyphens(geocode) = KnownGeocodeClean \/ geocode = KnownGeocode)
         THEN Success(KnownAddress, geocode)
         ELSE Failure("Property not found or website structure changed")

\* lines 44-54: the one source of an address lookup_property has is the known
\* result, consulted when the search request answered 200
requests_attempts(geocode, web) ==
    IF web.ok /\ web.initial = HttpOk /\ web.search = HttpOk
    THEN <<Attempt("known", lookup_property(geocode, web))>>
    ELSE <<>>

(***************************************************************************)
(* Inputs: geocodes, and what the cadastral site serves                    *)
(***************************************************************************)
G_a == <<"0","3","-","1","0">>          \* a well-formed geocode
G_b == <<"0","3","-","1","1">>          \* another one
G_short == <<"0","3","-","1">>         \* shorter than the API's min_length
G_blank == <<" "," "," "," "," ">>   \* min_length characters, all of them whitespace
G_empty == <<>>

A_a == <<"1"," ","A",","," ","M","T"," ","5","9","1","0","2">>
A_b == <<"2"," ","B",","," ","M","T"," ","5","9","1","0","1","-","1","2","3","4">>
A_ws == <<" ","1"," "," ","A",",","\n"," ","M","T"," ","5","9","1","0","2"," ">>    \* the same address as the markup holds it
A_lower == <<"1"," ","a",","," ","m","t"," ","5","9","1","0","2">>
A_none == <<"N","/","A">>

AddressOf(g) == IF g = G_b THEN A_b ELSE IF g = KnownGeocode THEN KnownAddress ELSE A_a

\* the page the site serves for geocode g when it knows the parcel
StdPage(g) ==
    << Elem("div", g), Elem("div", T_PropertyAddress), Elem("div", AddressOf(g)) >>

\* the layouts the site has served, as the extraction strategies tell them apart
PortalPages(g) ==
    { StdPage(g),
      << Elem("div", g), Elem("div", T_PropertyAddress), Elem("div", A_ws) >>,
      << Elem("div", g), Elem("div", T_PropertyAddress), Elem("div", A_none) >>,
      << Elem("div", g), Elem("div", T_AddressColon), Elem("div", AddressOf(g)) >>,
      << Elem("span", g), Elem("span", T_PropertyAddress), Elem("span", AddressOf(g)) >>,
      << Elem("div", g), Elem("span", T_AddressColon \o <<" ">> \o A_lower) >>,
      << Elem("span", g \o <<" ">> \o AddressOf(g)) >>,
      << Elem("div", T_PropertyAddress) >>,
      << Elem("div", <<"O","w","n","e","r">>) >>,
      << >> }

(***************************************************************************)
(* app.py: GET /lookup                                                     *)
(***************************************************************************)
MaxRequests == 2      \* requests the model lets arrive
Requests == 1..MaxRequests

MinLength == 5        \* Query(..., min_length=5)

ApiGeocodes == {None, G_short, G_blank, G_a, G_b}

NoAddressPage == << Elem("div", <<"O","w","n","e","r">>) >>
ErrorPage == << Elem("div", <<"E","r","r","o","r">>) >>

\* the cadastral site as GET /lookup meets it: parcel G_a is on record, any other
\* geocode (and the empty one) gets a page that shows no address
Portal(g) == IF g = G_a THEN StdPage(g) ELSE NoAddressPage

\* FastAPI's check of the declared query parameter, before lookup() is called:
\* a missing or too short value is answered by the framework's validation error
query_valid(geocode) == geocode # None /\ Len(geocode) >= MinLength

ValidationError == [status |-> 422, detail |-> "validation error"]

\* an exception no handler of lookup() catches: the server's bare error response
Unhandled == [status |-> 500, detail |-> "Internal Server Error"]

NoResponse == [status |-> 0]

LookupUrl(geocode) == [base |-> "CADASTRAL_BASE", geocode |-> Strip(geocode)]

IdleRequest ==
    [pc |-> "idle", geocode |-> None, browser |-> 0,
     context |-> 0, page |-> 0, nav |-> "none", navs |-> 0,
     extracted |-> FALSE, pending |-> NoResponse, response |-> NoResponse]

NoContext == [state |-> "none", users |-> {}]
NoPage == [state |-> "none", context |-> 0, url |-> None, dom |-> <<>>, users |-> {}]

\* `await x`: a coroutine is run to its result; awaiting any other object raises
\* TypeError ("object Locator can't be used in 'await' expression")
AwaitRaises(kind) == kind # "coroutine"

\* page.locator(...).first is a property whose value is a Locator (line 48 goes
\* on to call .count() on it), not a coroutine
LocatorFirst == "Locator"

\* lines 46-80 as written, were the locators obtained: the address found, or None
app_address(dom) ==
    LET labels == DivsContaining(dom, T_PropertyAddress)
        all_text == body_text_content(dom)
        v1 == AddressXPath(dom, 4)
        v2 == FirstOf({NextDiv(dom, i) : i \in labels})
        first ==
            IF labels = {}
            THEN IF all_text # <<>> /\ Contains(all_text, T_PropertyAddress) /\ v1 # 0
                 THEN Strip(text_content(dom[v1])) ELSE None
            ELSE IF v2 # 0 THEN Strip(text_content(dom[v2])) ELSE None
        possible == ElemsWithText(dom, T_PropertyAddress)
        sib == IF possible = {} THEN 0 ELSE NextElem(dom, SetMin(possible))
    IN  IF first # None /\ first # <<>> THEN first
        ELSE IF possible = {} THEN None
        ELSE IF sib = 0 \/ inner_text(dom[sib]) = <<>> THEN None
        ELSE Strip(inner_text(dom[sib]))

\* lines 44-90: what the try block hands to `finally`.  Line 46 awaits
\* page.locator(...).first, so the block raises before any strategy has run and
\* `except Exception` turns that into the 500.
app_try_block(geocode, dom) ==
    IF AwaitRaises(LocatorFirst)
    THEN [status |-> 500, detail |-> "Lookup failed: TypeError"]
    ELSE IF app_address(dom) = None \/ app_address(dom) = <<>>
         THEN [status |-> 404, detail |-> "Address not found on the page."]
         ELSE [status |-> 200, geocode |-> geocode, address |-> app_address(dom)]

\* the mutant of NewContextId: one context is shared by every request
NewContextId_shared(i) == 1

\* browser.new_context() makes a context of its own for the call of request i;
\* the model names the new context after that request
NewContextId(i) == i

\* lines 16-24, from a point where the coroutine runs: the await it stops at next
NextInGetBrowser(s) ==
    IF s.pw = 0 THEN "starting"
    ELSE IF s.browser = 0 THEN "launching"
    ELSE "new_context"

\* the request's fields when get_browser (re)starts running at singleton state s
EnterGetBrowser(r, s) ==
    [r EXCEPT !.pc = NextInGetBrowser(s),
              !.browser = IF NextInGetBrowser(s) = "new_context" THEN s.browser ELSE 0]

\* the response leaves and the handler's locals are gone; what stays is what
\* the request did (its context, its navigation) for the properties to read
Finish(r, resp) ==
    [r EXCEPT !.pc = "done", !.response = resp, !.pending = NoResponse,
              !.browser = 0]

\* Requests are numbered as they arrive, and the model lets a request overlap
\* its predecessor only: two requests are in flight at most.
MayArrive(i) ==
    \A j \in Requests :
        j < i => IF j = i - 1 THEN reqs[j].pc # "idle" ELSE reqs[j].pc = "done"

\* lines 27-30: the framework validates, then lookup() runs up to its first await
Lookup(i, g) ==
    /\ mode = "api"
    /\ reqs[i].pc = "idle"
    /\ MayArrive(i)
    /\ reqs' = [reqs EXCEPT ![i] =
          IF ~query_valid(g)
          THEN Finish([reqs[i] EXCEPT !.geocode = g], ValidationError)
          ELSE EnterGetBrowser([reqs[i] EXCEPT !.geocode = g], singleton)]
    /\ UNCHANGED <<mode, singleton, drivers, browsers, contexts, pages, cli, val>>

\* line 17: async_playwright().start() returns (or raises) and get_browser goes on
StartReturns(i, ok) ==
    /\ mode = "api"
    /\ reqs[i].pc = "starting"
    /\ IF ok
       THEN /\ drivers' = drivers + 1
            /\ singleton' = [singleton EXCEPT !.pw = drivers + 1]
            /\ reqs' = [reqs EXCEPT ![i] = EnterGetBrowser(reqs[i], singleton')]
       ELSE /\ reqs' = [reqs EXCEPT ![i] = Finish(reqs[i], Unhandled)]
            /\ UNCHANGED <<drivers, singleton>>
    /\ UNCHANGED <<mode, browsers, contexts, pages, cli, val>>

\* lines 20-24: chromium.launch() returns (or raises); the browser is stored and returned
LaunchReturns(i, ok) ==
    /\ mode = "api"
    /\ reqs[i].pc = "launching"
    /\ IF ok
       THEN /\ browsers' = browsers + 1
            /\ singleton' = [singleton EXCEPT !.browser = browsers + 1]
            /\ reqs' = [reqs EXCEPT ![i] = [reqs[i] EXCEPT !.pc = "new_context",
                                               !.browser = browsers + 1]]
       ELSE /\ reqs' = [reqs EXCEPT ![i] = Finish(reqs[i], Unhandled)]
            /\ UNCHANGED <<browsers, singleton>>
    /\ UNCHANGED <<mode, drivers, contexts, pages, cli, val>>

\* lines 31-37: browser.new_context() returns (or raises)
NewContextReturns(i, ok) ==
    /\ mode = "api"
    /\ reqs[i].pc = "new_context"
    /\ IF ok
       THEN LET c == NewContextId(i)
            IN  /\ contexts' = [contexts EXCEPT ![c] =
                       [state |-> "open", users |-> @.users \cup {i}]]
                /\ reqs' = [reqs EXCEPT ![i] = [reqs[i] EXCEPT !.pc = "new_page",
                                                               !.context = c]]
       ELSE /\ reqs' = [reqs EXCEPT ![i] = Finish(reqs[i], Unhandled)]
            /\ UNCHANGED contexts
    /\ UNCHANGED <<mode, singleton, drivers, browsers, pages, cli, val>>

\* line 38: context.new_page() returns (or raises); it is outside the try block
NewPageReturns(i, ok) ==
    /\ mode = "api"
    /\ reqs[i].pc = "new_page"
    /\ IF ok
       THEN /\ pages' = [pages EXCEPT ![i] =
                   [state |-> "open", context |-> reqs[i].context, url |-> None,
                    dom |-> <<>>, users |-> {i}]]
            /\ reqs' = [reqs EXCEPT ![i] = [reqs[i] EXCEPT !.pc = "goto", !.page = i]]
       ELSE /\ reqs' = [reqs EXCEPT ![i] = Finish(reqs[i], Unhandled)]
            /\ UNCHANGED pages
    /\ contexts' = [contexts EXCEPT ![reqs[i].context].users = @ \cup {i}]
    /\ UNCHANGED <<mode, singleton, drivers, browsers, cli, val>>

\* what page.goto can do: return the response of a loaded page ("ok"), return the
\* response of an error status ("http_error": goto does not raise on a status),
\* or raise ("timeout", "net_error")
GotoOutcomes == {"ok", "http_error", "timeout", "net_error"}
GotoRaises(outcome) == outcome \in {"timeout", "net_error"}

\* line 90: f"Lookup failed: {e}"
LookupFailed(outcome) ==
    IF outcome = "timeout" THEN "Lookup failed: Timeout 45000ms exceeded"
    ELSE "Lookup failed: net::ERR_CONNECTION_REFUSED"

\* what the page holds after goto: the served layout, the error page, or nothing
Loaded(outcome, served) ==
    IF outcome = "ok" THEN served
    ELSE IF outcome = "http_error" THEN ErrorPage ELSE <<>>

\* line 42: page.goto returns or raises; `except Exception` makes the 500
GotoReturns(i, outcome) ==
    /\ mode = "api"
    /\ reqs[i].pc = "goto"
    /\ pages' = [pages EXCEPT ![reqs[i].page] =
                    [@ EXCEPT !.url = LookupUrl(reqs[i].geocode),
                              !.dom = Loaded(outcome, Portal(Strip(reqs[i].geocode))),
                              !.users = @ \cup {i}]]
    /\ reqs' = [reqs EXCEPT ![i] =
          [reqs[i] EXCEPT !.nav = outcome, !.navs = @ + 1,
              !.pc = IF GotoRaises(outcome) THEN "closing" ELSE "extract",
              !.pending = IF GotoRaises(outcome)
                          THEN [status |-> 500, detail |-> LookupFailed(outcome)]
                          ELSE NoResponse]]
    /\ UNCHANGED <<mode, singleton, drivers, browsers, contexts, cli, val>>

\* lines 44-90: the strategies, on the request's own page
Extract(i) ==
    /\ mode = "api"
    /\ reqs[i].pc = "extract"
    /\ pages' = [pages EXCEPT ![reqs[i].page].users = @ \cup {i}]
    /\ reqs' = [reqs EXCEPT ![i] =
          [reqs[i] EXCEPT !.pc = "closing", !.extracted = TRUE,
              !.pending = app_try_block(reqs[i].geocode, pages[reqs[i].page].dom)]]
    /\ UNCHANGED <<mode, singleton, drivers, browsers, contexts, cli, val>>

\* lines 91-92: finally: await context.close(), then the response leaves
CloseReturns(i) ==
    /\ mode = "api"
    /\ reqs[i].pc = "closing"
    /\ contexts' = [contexts EXCEPT ![reqs[i].context] =
                       [@ EXCEPT !.state = "closed", !.users = @ \cup {i}]]
    /\ reqs' = [reqs EXCEPT ![i] = Finish(reqs[i], reqs[i].pending)]
    /\ UNCHANGED <<mode, singleton, drivers, browsers, pages, cli, val>>

ApiNext ==
    \/ \E i \in Requests, g \in ApiGeocodes : Lookup(i, g)
    \/ \E i \in Requests, ok \in BOOLEAN : StartReturns(i, ok)
    \/ \E i \in Requests, ok \in BOOLEAN : LaunchReturns(i, ok)
    \/ \E i \in Requests, ok \in BOOLEAN : NewContextReturns(i, ok)
    \/ \E i \in Requests, ok \in BOOLEAN : NewPageReturns(i, ok)
    \/ \E i \in Requests, o \in GotoOutcomes : GotoReturns(i, o)
    \/ \E i \in Requests : Extract(i)
    \/ \E i \in Requests : CloseReturns(i)

(***************************************************************************)
(* The command-line scripts: one run, from `if __name__ == "__main__"` to   *)
(* the exit of the process                                                 *)
(***************************************************************************)
Scripts == {"property_lookup", "property_lookup_api", "simple_property_lookup",
            "property_lookup_requests", "diagnostic_lookup"}

\* sys.argv[1:] as the runs are started
CliArgvs == { <<>>, <<G_empty>>, << <<" ", " ">> >>, <<G_a>>, <<KnownGeocode>>,
              <<G_a, G_b>> }

NoResult == [success |-> FALSE, error |-> "no result"]

CliStart(script, argv) ==
    [script |-> script, argv |-> argv, pc |-> "main", geocode |-> None,
     stdout |-> <<>>, exit_code |-> -1, traceback |-> FALSE, lookups |-> 0,
     driver |-> "none", browser |-> "none", ctx |-> "none",
     nav |-> "none", navs |-> 0, extracted |-> FALSE, dom |-> <<>>,
     faults |-> {}, attempts |-> <<>>, result |-> NoResult]

\* the argument check of each script's main block: [ok, error]
main_check(script, argv) ==
    IF Len(argv) # 1
    THEN [ok |-> FALSE,
          error |-> IF script = "property_lookup_requests"
                    THEN "Usage: python property_lookup_requests.py <geocode>"
                    ELSE "Geocode argument required"]
    ELSE IF /\ script \in {"property_lookup", "property_lookup_api",
                           "simple_property_lookup"}
            /\ Strip(argv[1]) = <<>>
         THEN [ok |-> FALSE, error |-> "Empty geocode provided"]
         ELSE [ok |-> TRUE, error |-> ""]

\* the geocode the main block hands to the lookup function
main_geocode(script, argv) ==
    IF script = "property_lookup_requests" THEN argv[1] ELSE Strip(argv[1])

FirstStep(script) ==
    CASE script = "property_lookup" -> "pl_launch"
      [] script = "diagnostic_lookup" -> "diag_install"
      [] script = "property_lookup_api" -> "api_lookup"
      [] script = "simple_property_lookup" -> "simple_lookup"
      [] script = "property_lookup_requests" -> "requests_lookup"

\* print(json.dumps(...)); sys.exit(code)
PrintAndExit(c, obj, code) ==
    [c EXCEPT !.pc = "exit", !.stdout = Append(@, obj), !.exit_code = code]

\* an exception nothing catches: the interpreter prints the traceback to stderr
\* and exits with status 1; leaving `with sync_playwright()` stops the driver,
\* which takes the browser process down with it
Uncaught(c) ==
    [c EXCEPT !.pc = "exit", !.traceback = TRUE, !.exit_code = 1,
              !.driver = IF @ = "running" THEN "stopped" ELSE @,
              !.browser = IF @ = "open" THEN "killed" ELSE @,
              !.ctx = IF @ = "open" THEN "killed" ELSE @]

\* the main block of every script
Main ==
    /\ mode = "cli"
    /\ cli.pc = "main"
    /\ cli' = IF ~main_check(cli.script, cli.argv).ok
              THEN PrintAndExit(cli, Failure(main_check(cli.script, cli.argv).error), 1)
              ELSE [cli EXCEPT !.pc = FirstStep(cli.script),
                               !.geocode = main_geocode(cli.script, cli.argv),
                               !.lookups = 1]
    /\ UNCHANGED <<mode, singleton, drivers, browsers, contexts, pages, reqs, val>>

\* property_lookup.py lines 12-17: the driver starts and chromium is launched
PLLaunch(ok) ==
    /\ mode = "cli"
    /\ cli.pc = "pl_launch"
    /\ cli' = IF ok
              THEN [cli EXCEPT !.pc = "pl_context", !.driver = "running",
                               !.browser = "open"]
              ELSE Uncaught([cli EXCEPT !.driver = "running"])
    /\ UNCHANGED <<mode, singleton, drivers, browsers, contexts, pages, reqs, val>>

\* property_lookup.py lines 19-25: browser.new_context(), before the try
PLNewContext(ok) ==
    /\ mode = "cli"
    /\ cli.pc = "pl_context"
    /\ cli' = IF ok THEN [cli EXCEPT !.pc = "pl_page", !.ctx = "open"]
              ELSE Uncaught(cli)
    /\ UNCHANGED <<mode, singleton, drivers, browsers, contexts, pages, reqs, val>>

\* property_lookup.py line 26: context.new_page(), before the try
PLNewPage(ok) ==
    /\ mode = "cli"
    /\ cli.pc = "pl_page"
    /\ cli' = IF ok THEN [cli EXCEPT !.pc = "pl_goto"] ELSE Uncaught(cli)
    /\ UNCHANGED <<mode, singleton, drivers, browsers, contexts, pages, reqs, val>>

\* property_lookup.py lines 28-31 and 110-111: page.goto; a raise is caught
PLGoto(outcome, served) ==
    /\ mode = "cli"
    /\ cli.pc = "pl_goto"
    /\ outcome # "ok" => served = StdPage(cli.geocode)
    /\ cli' = [cli EXCEPT !.nav = outcome, !.navs = @ + 1,
                  !.dom = Loaded(outcome, served),
                  !.pc = IF GotoRaises(outcome) THEN "pl_finally" ELSE "pl_extract",
                  !.result = IF GotoRaises(outcome)
                             THEN Failure("Error processing geocode: goto raised")
                             ELSE NoResult]
    /\ UNCHANGED <<mode, singleton, drivers, browsers, contexts, pages, reqs, val>>

\* property_lookup.py lines 33-108: the strategies
PLExtract(faults) ==
    /\ mode = "cli"
    /\ cli.pc = "pl_extract"
    /\ cli' = [cli EXCEPT !.pc = "pl_finally", !.extracted = TRUE,
                  !.faults = faults,
                  !.result = pl_extract(cli.geocode, cli.dom, faults)]
    /\ UNCHANGED <<mode, singleton, drivers, browsers, contexts, pages, reqs, val>>

\* property_lookup.py lines 112-114, and the end of the with block
PLFinally ==
    /\ mode = "cli"
    /\ cli.pc = "pl_finally"
    /\ cli' = [cli EXCEPT !.pc = "print", !.ctx = "closed", !.browser = "closed",
                          !.driver = "stopped"]
    /\ UNCHANGED <<mode, singleton, drivers, browsers, contexts, pages, reqs, val>>

\* diagnostic_lookup.py lines 10-18: a trial launch; a missing executable starts
\* `playwright install` with check=True inside the except block, so a failed
\* install raises out of the function; any other launch error is dropped
DiagInstallOutcomes == {"present", "installed", "install_failed", "other_error"}

DiagInstall(outcome) ==
    /\ mode = "cli"
    /\ cli.pc = "diag_install"
    /\ cli' = IF outcome = "install_failed" THEN Uncaught(cli)
              ELSE [cli EXCEPT !.pc = "diag_launch"]
    /\ UNCHANGED <<mode, singleton, drivers, browsers, contexts, pages, reqs, val>>

\* diagnostic_lookup.py lines 23-28: launch and new_page, before the try
DiagLaunch(ok) ==
    /\ mode = "cli"
    /\ cli.pc = "diag_launch"
    /\ cli' = IF ok
              THEN [cli EXCEPT !.pc = "diag_goto", !.driver = "running",
                               !.browser = "open"]
              ELSE Uncaught([cli EXCEPT !.driver = "running"])
    /\ UNCHANGED <<mode, singleton, drivers, browsers, contexts, pages, reqs, val>>

\* diagnostic_lookup.py lines 30-41 and 88-93
DiagGoto(outcome, served) ==
    /\ mode = "cli"
    /\ cli.pc = "diag_goto"
    /\ outcome # "ok" => served = StdPage(cli.geocode)
    /\ cli' = [cli EXCEPT !.nav = outcome, !.navs = @ + 1,
                  !.dom = Loaded(outcome, served),
                  !.pc = IF GotoRaises(outcome) THEN "diag_finally" ELSE "diag_extract",
                  !.result = IF GotoRaises(outcome)
                             THEN Failure("Error: goto raised")
                             ELSE NoResult]
    /\ UNCHANGED <<mode, singleton, drivers, browsers, contexts, pages, reqs, val>>

\* diagnostic_lookup.py lines 43-86
DiagExtract ==
    /\ mode = "cli"
    /\ cli.pc = "diag_extract"
    /\ cli' = [cli EXCEPT !.pc = "diag_finally", !.extracted = TRUE,
                  !.result = diagnostic_extract(cli.geocode, cli.dom)]
    /\ UNCHANGED <<mode, singleton, drivers, browsers, contexts, pages, reqs, val>>

\* diagnostic_lookup.py lines 94-95, and the end of the with block
DiagFinally ==
    /\ mode = "cli"
    /\ cli.pc = "diag_finally"
    /\ cli' = [cli EXCEPT !.pc = "print", !.browser = "closed", !.driver = "stopped"]
    /\ UNCHANGED <<mode, singleton, drivers, browsers, contexts, pages, reqs, val>>

\* the ArcGIS service as property_lookup_api.py meets it
ArcServices(g) ==
    { [up |-> FALSE, parcels |-> {},
       attrs |-> [AddressLine1 |-> <<>>, AddressLine2 |-> <<>>, CityStateZip |-> <<>>]],
      [up |-> TRUE, parcels |-> {},
       attrs |-> [AddressLine1 |-> <<>>, AddressLine2 |-> <<>>, CityStateZip |-> <<>>]],
      [up |-> TRUE, parcels |-> {g},
       attrs |-> [AddressLine1 |-> <<"1", " ", "A", " ">>, AddressLine2 |-> <<>>,
                  CityStateZip |-> <<"B", ",", " ", "M", "T", " ", "5", "9", "1", "0", "2">>]],
      [up |-> TRUE, parcels |-> {RemoveHyphens(g)},
       attrs |-> [AddressLine1 |-> <<"1", " ", "A">>, AddressLine2 |-> <<>>,
                  CityStateZip |-> <<"B", ",", " ", "M", "T">>]] }

\* what requests.get of the cadastral page gives: a raise, or a page
HttpResponses(g) ==
    {[ok |-> FALSE, dom |-> <<>>]} \cup {[ok |-> TRUE, dom |-> d] : d \in PortalPages(g)}

\* property_lookup_api.py lines 17-42
ApiLookup(arc, resp) ==
    /\ mode = "cli"
    /\ cli.pc = "api_lookup"
    /\ cli' = [cli EXCEPT !.pc = "print",
                  !.attempts = api_attempts(cli.geocode, arc, resp),
                  !.result = api_get_property_address(cli.geocode, arc, resp)]
    /\ UNCHANGED <<mode, singleton, drivers, browsers, contexts, pages, reqs, val>>

\* simple_property_lookup.py lines 21-78
SimpleLookup(resp) ==
    /\ mode = "cli"
    /\ cli.pc = "simple_lookup"
    /\ cli' = [cli EXCEPT !.pc = "print", !.navs = @ + 1,
                  !.extracted = resp.ok,
                  !.result = IF resp.ok THEN simple_extract(cli.geocode, resp.dom)
                             ELSE Failure("Network error: request raised")]
    /\ UNCHANGED <<mode, singleton, drivers, browsers, contexts, pages, reqs, val>>

WebAnswers ==
    { [ok |-> FALSE, initial |-> 0, search |-> 0],
      [ok |-> TRUE, initial |-> 500, search |-> 200],
      [ok |-> TRUE, initial |-> 200, search |-> 200],
      [ok |-> TRUE, initial |-> 200, search |-> 404] }

\* property_lookup_requests.py lines 15-57
RequestsLookup(web) ==
    /\ mode = "cli"
    /\ cli.pc = "requests_lookup"
    /\ cli' = [cli EXCEPT !.pc = "print",
                  !.attempts = requests_attempts(cli.geocode, web),
                  !.result = lookup_property(cli.geocode, web)]
    /\ UNCHANGED <<mode, singleton, drivers, browsers, contexts, pages, reqs, val>>

\* the last two lines of every script: print(json.dumps(result))
PrintResult ==
    /\ mode = "cli"
    /\ cli.pc = "print"
    /\ cli' = PrintAndExit(cli, cli.result, 0)
    /\ UNCHANGED <<mode, singleton, drivers, browsers, contexts, pages, reqs, val>>

CliNext ==
    \/ Main
    \/ \E ok \in BOOLEAN : PLLaunch(ok)
    \/ \E ok \in BOOLEAN : PLNewContext(ok)
    \/ \E ok \in BOOLEAN : PLNewPage(ok)
    \/ \E o \in GotoOutcomes : \E d \in PortalPages(cli.geocode) : PLGoto(o, d)
    \/ \E faults \in SUBSET (1..NumStrategies) : PLExtract(faults)
    \/ PLFinally
    \/ \E o \in DiagInstallOutcomes : DiagInstall(o)
    \/ \E ok \in BOOLEAN : DiagLaunch(ok)
    \/ \E o \in GotoOutcomes : \E d \in PortalPages(cli.geocode) : DiagGoto(o, d)
    \/ DiagExtract
    \/ DiagFinally
    \/ \E arc \in ArcServices(cli.geocode), resp \in HttpResponses(cli.geocode) :
          ApiLookup(arc, resp)
    \/ \E resp \in HttpResponses(cli.geocode) : SimpleLookup(resp)
    \/ \E web \in WebAnswers : RequestsLookup(web)
    \/ PrintResult

(***************************************************************************)
(* The validator on its own: a string put together from parts              *)
(***************************************************************************)
ValTexts == { <<>>, <<"1", " ", "A">>, <<"x">> }
ValCommas == { <<",">>, <<>> }
ValGaps == { <<>>, <<" ">> }
ValStates == { <<"M","T">>, <<"m","t">>, <<"M","t">>, <<"C","A">>, <<"n","y">>,
               <<"M">>, <<>> }
ValZips == { <<"5","9","1","0","2">>, <<"5","9","1","0">>, <<>> }
ValPlus4s == { <<>>, <<"-","6","7","8","9">>, <<"-","6","7">> }
ValSuffixes == { <<>>, <<"x">>, <<"\n">> }

ValString(p) == p.text \o p.comma \o p.gap1 \o p.state \o p.gap2 \o p.zip \o p.plus4 \o p.suffix

ValParts ==
    [text : ValTexts, comma : ValCommas, gap1 : ValGaps, state : ValStates,
     gap2 : ValGaps, zip : ValZips, plus4 : ValPlus4s, suffix : ValSuffixes]

\* the two validators applied to the same string (None stands for a null argument)
Validate ==
    /\ mode = "val"
    /\ val.pc = "start"
    /\ val' = [val EXCEPT !.pc = "done",
                  !.pl = looks_like_full_address(val.s),
                  !.api = api_looks_like_full_address(val.s)]
    /\ UNCHANGED <<mode, singleton, drivers, browsers, contexts, pages, reqs, cli>>

\* the parts of the empty string
NoParts ==
    [text |-> <<>>, comma |-> <<>>, gap1 |-> <<>>, state |-> <<>>, gap2 |-> <<>>,
     zip |-> <<>>, plus4 |-> <<>>, suffix |-> <<>>]

ValOff ==
    [pc |-> "off", null |-> TRUE, parts |-> NoParts, s |-> None,
     pl |-> FALSE, api |-> FALSE]

Init ==
    /\ mode \in {"api", "cli", "val"}
    /\ singleton = [pw |-> 0, browser |-> 0]
    /\ drivers = 0
    /\ browsers = 0
    /\ contexts = [i \in Requests |-> NoContext]
    /\ pages = [i \in Requests |-> NoPage]
    /\ reqs = [i \in Requests |-> IdleRequest]
    /\ IF mode = "cli"
       THEN cli \in {CliStart(s, a) : s \in Scripts, a \in CliArgvs}
       ELSE cli = [CliStart("property_lookup", <<>>) EXCEPT !.pc = "off"]
    /\ IF mode = "val"
       THEN val \in {[pc |-> "start", null |-> FALSE, parts |-> p, s |-> ValString(p),
                      pl |-> FALSE, api |-> FALSE] : p \in ValParts}
                \cup {[ValOff EXCEPT !.pc = "start"]}
       ELSE val = ValOff

Next == ApiNext \/ CliNext \/ Validate

Spec == Init /\ [][Next]_vars

(***************************************************************************)
(* Properties                                                              *)
(***************************************************************************)
Finished(i) == reqs[i].pc = "done"
InFlight(i) == reqs[i].pc \notin {"idle", "done"}

\* the LookupResult invariant on a script's result
ResultInvariant(r) ==
    IF r.success
    THEN "address" \in DOMAIN r /\ looks_like_full_address(r.address)
    ELSE "address" \notin DOMAIN r /\ "error" \in DOMAIN r /\ r.error # ""

\* the same on a response of GET /lookup
ResponseInvariant(r) ==
    IF r.status = 200
    THEN "address" \in DOMAIN r /\ looks_like_full_address(r.address)
    ELSE "address" \notin DOMAIN r /\ "detail" \in DOMAIN r /\ r.detail # ""

\* C1: every result a lookup entry point produces keeps the LookupResult
\* invariant: a success carries an address the validator accepts, a failure
\* carries no address and an error (or detail) string.
C1_ResultInvariant ==
    /\ \A i \in Requests : Finished(i) => ResponseInvariant(reqs[i].response)
    /\ cli.pc = "print" => ResultInvariant(cli.result)
    /\ \A k \in 1..Len(cli.stdout) : ResultInvariant(cli.stdout[k])

\* a run of property_lookup.py has printed a success found by its strategies
C1_Witness ==
    /\ cli.pc = "exit"
    /\ cli.script = "property_lookup"
    /\ cli.extracted
    /\ Len(cli.stdout) = 1
    /\ cli.stdout[1].success
    /\ cli.stdout[1].address = A_a

BadInput(g) == g = None \/ Len(g) < MinLength \/ Strip(g) = <<>>

\* C2: a request whose geocode is missing, shorter than 5 characters or empty
\* after trimming is answered with HTTP 400, and no context is created and no
\* navigation is started for it.
C2_BadInputRejected ==
    \A i \in Requests :
        (reqs[i].pc # "idle" /\ BadInput(reqs[i].geocode)) =>
            /\ reqs[i].context = 0
            /\ reqs[i].navs = 0
            /\ reqs[i].pc \notin {"starting", "launching", "new_context"}
            /\ Finished(i) => reqs[i].response.status = 400

LookupFailedDetails ==
    {"Lookup failed: TypeError"} \cup {LookupFailed(o) : o \in {"timeout", "net_error"}}

\* C3: a request that passes validation ends in one of three outcomes: 200 with
\* {geocode, address} when the page it loaded holds an address, 404 when the
\* page loaded and holds none, 500 with the "Lookup failed" detail when
\* navigation or extraction raised; a page with an address never ends in 500.
C3_ThreeOutcomes ==
    \A i \in Requests :
        (Finished(i) /\ query_valid(reqs[i].geocode)) =>
            LET r == reqs[i].response
                found == app_address(pages[i].dom)
            IN  /\ \/ r.status = 200 /\ r.address = found /\ r.geocode = reqs[i].geocode
                   \/ r.status = 404
                   \/ r.status = 500 /\ r.detail \in LookupFailedDetails
                /\ (reqs[i].nav = "ok" /\ found # None) => r.status = 200
                /\ (reqs[i].nav = "ok" /\ found = None) => r.status = 404

\* C4: the context a request created is closed by the time the request
\* finishes, whatever the exit path; no context stays open after it.
C4_ContextClosed ==
    /\ \A i \in Requests :
          (Finished(i) /\ reqs[i].context # 0) =>
              contexts[reqs[i].context].state = "closed"
    /\ cli.pc = "exit" => cli.ctx # "open"

\* C5: whatever the interleaving of requests, get_browser starts at most one
\* Playwright driver and launches at most one browser.
C5_OneBrowser == drivers <= 1 /\ browsers <= 1

\* C6: each request has a context and a page of its own and uses only those:
\* no context or page is used by two requests, and what a request extracts
\* from is the page it navigated itself, to its own geocode.
C6_Isolation ==
    /\ \A c \in Requests : Cardinality(contexts[c].users) <= 1
    /\ \A p \in Requests : Cardinality(pages[p].users) <= 1
    /\ \A i, j \in Requests :
          (i # j /\ reqs[i].context # 0 /\ reqs[j].context # 0) =>
              /\ reqs[i].context # reqs[j].context
              /\ (reqs[i].page # 0 /\ reqs[j].page # 0) => reqs[i].page # reqs[j].page
    /\ \A i \in Requests :
          reqs[i].page # 0 =>
              /\ pages[reqs[i].page].context = reqs[i].context
              /\ pages[reqs[i].page].users \subseteq {i}
              /\ contexts[reqs[i].context].users \subseteq {i}
              /\ reqs[i].navs > 0 =>
                    /\ pages[reqs[i].page].url = LookupUrl(reqs[i].geocode)
                    /\ pages[reqs[i].page].dom =
                          Loaded(reqs[i].nav, Portal(Strip(reqs[i].geocode)))

\* two requests for different geocodes are in flight together, each past its
\* own navigation and extraction
C6_Witness ==
    /\ reqs[1].pc = "closing" /\ reqs[1].extracted
    /\ reqs[2].pc = "closing" /\ reqs[2].extracted
    /\ reqs[1].geocode = G_a /\ reqs[2].geocode = G_b
    /\ pages[1].dom # pages[2].dom

NavigationFailed(outcome) == outcome \in {"http_error", "timeout", "net_error"}

\* C7: a lookup navigates once; when that attempt fails (network failure,
\* non-success status, timeout) the request ends in a failure carrying the
\* error detail and no extraction strategy has run.
C7_SingleAttempt ==
    /\ \A i \in Requests :
          /\ reqs[i].navs <= 1
          /\ NavigationFailed(reqs[i].nav) =>
                /\ ~reqs[i].extracted
                /\ Finished(i) => reqs[i].response.status = 500
    /\ cli.navs <= 1
    /\ NavigationFailed(cli.nav) =>
          /\ ~cli.extracted
          /\ cli.pc \in {"print", "exit"} =>
                ~cli.result.success /\ cli.result.error # ""

NoUsableArgument(argv) ==
    Len(argv) = 0 \/ (Len(argv) = 1 /\ Strip(argv[1]) = <<>>)

\* C8: every script, run without an argument or with one that is empty after
\* trimming, does no lookup, prints a failure object and exits with code 1.
C8_ArgumentRequired ==
    (cli.pc # "off" /\ NoUsableArgument(cli.argv)) =>
        /\ cli.lookups = 0
        /\ cli.pc = "exit" =>
              /\ cli.exit_code = 1
              /\ Len(cli.stdout) = 1
              /\ ~cli.stdout[1].success

\* C9: every run of a script prints exactly one JSON object and does not end
\* in an uncaught exception.
C9_AlwaysJson ==
    cli.pc = "exit" => (Len(cli.stdout) = 1 /\ ~cli.traceback)

TwoLetters(st) == Len(st) = 2 /\ IsLetter(st[1]) /\ IsLetter(st[2])
FiveDigits(z) == Len(z) = 5 /\ \A k \in 1..5 : IsDigit(z[k])
Plus4(x) == Len(x) = 5 /\ x[1] = "-" /\ \A k \in 2..5 : IsDigit(x[k])
IsMT(st) == Len(st) = 2 /\ ToUpper(st[1]) = "M" /\ ToUpper(st[2]) = "T"

\* '<text>, ST 12345' or '<text>, ST 12345-6789'
AddressForm(p) ==
    /\ p.comma = <<",">>
    /\ p.gap1 = <<" ">>
    /\ TwoLetters(p.state)
    /\ p.gap2 = <<" ">>
    /\ FiveDigits(p.zip)
    /\ p.plus4 = <<>> \/ Plus4(p.plus4)
    /\ p.suffix = <<>>

LacksPart(p) == p.comma = <<>> \/ p.state = <<>> \/ p.zip = <<>>

Validated == val.pc = "done"

\* C10 as stated: the validator accepts every '<text>, ST 12345[-6789]' with
\* any two-letter state code in either case, and rejects every string without
\* the comma, the state code or the zip, and every empty, null or shorter than
\* 10 character string.
C10_AnyState ==
    Validated =>
        /\ (~val.null /\ AddressForm(val.parts)) => (val.pl /\ val.api)
        /\ (~val.null /\ LacksPart(val.parts)) => (~val.pl /\ ~val.api)
        /\ (val.null \/ Len(val.s) < MinAddressLen) => (~val.pl /\ ~val.api)

\* C10 (amended): the validator accepts every '<text>, MT 12345[-6789]' with
\* MT in either case, and rejects every string without the comma, the MT code
\* or the zip, every other state code, and the empty and the null string; the
\* validator of property_lookup_api.py also rejects every string shorter
\* than 10 characters.
C10_Montana ==
    Validated =>
        /\ (~val.null /\ AddressForm(val.parts) /\ IsMT(val.parts.state))
              => (val.pl /\ val.api)
        /\ (~val.null /\ (LacksPart(val.parts) \/ ~IsMT(val.parts.state)))
              => (~val.pl /\ ~val.api)
        /\ (val.null \/ val.s = <<>>) => (~val.pl /\ ~val.api)
        /\ (~val.null /\ Len(val.s) < MinAddressLen) => ~val.api

\* a string shorter than 10 characters that property_lookup.py's validator
\* accepts and property_lookup_api.py's rejects
C10_Witness ==
    /\ Validated
    /\ ~val.null
    /\ Len(val.s) < MinAddressLen
    /\ IsMT(val.parts.state)
    /\ val.pl
    /\ ~val.api

\* the elements of the page that are a 'Property Address' label with an
\* element right after it whose text, whitespace-normalized, is a valid address
LabelledAddresses(dom) ==
    {i \in 1..Len(dom) :
        /\ i + 1 <= Len(dom)
        /\ NormalizeWs(dom[i].text) = T_PropertyAddress
        /\ looks_like_full_address(NormalizeWs(dom[i + 1].text))}

\* the text of the sibling of the first such label, whitespace-normalized
LabelledAddress(dom) == NormalizeWs(dom[SetMin(LabelledAddresses(dom)) + 1].text)

\* C11: when navigation succeeded and the page holds a 'Property Address'
\* label directly followed by an element with a valid address, the lookup
\* returns success with that element's text, whitespace-normalized.
C11_LabelSibling ==
    /\ \A i \in Requests :
          (Finished(i) /\ reqs[i].nav = "ok" /\ LabelledAddresses(pages[i].dom) # {}) =>
              /\ reqs[i].response.status = 200
              /\ reqs[i].response.address = LabelledAddress(pages[i].dom)
    /\ (/\ cli.script = "property_lookup"
        /\ cli.extracted
        /\ cli.nav = "ok"
        /\ cli.faults = {}
        /\ LabelledAddresses(cli.dom) # {}) =>
              cli.result = Success(LabelledAddress(cli.dom), cli.geocode)

\* the strategies of property_lookup.py that, in this run, did not raise and
\* found a validated address
Yielding(dom, faults) ==
    {n \in 1..NumStrategies :
        n \notin faults /\ Strategy(n, dom, faults) \notin {None, Raised}}

\* C12: the strategies of property_lookup.py run in the order 1 to 5, and one
\* that raises or finds nothing passes control on: the result is the address
\* of the first strategy that did not raise and found a validated address,
\* whichever strategies before it raised.
C12_StrategyOrder ==
    (/\ cli.script = "property_lookup"
     /\ cli.extracted
     /\ Yielding(cli.dom, cli.faults) # {}) =>
          cli.result =
              Success(Strategy(SetMin(Yielding(cli.dom, cli.faults)), cli.dom, cli.faults),
                      cli.geocode)

\* a page with no recognizable label (no text with 'Address' in it) and no
\* text the address regex matches
NoAddressContent(dom) ==
    /\ \A k \in 1..Len(dom) :
          \A j \in 1..(Len(dom[k].text) + 1) : ~LitAt(dom[k].text, j, T_Address, TRUE)
    /\ FindAllGroup(body_inner_text(dom), "addr") = <<>>

\* C13: when the page was fetched and holds no recognizable label and no
\* regex-matchable address, the lookup ends in a not-found failure (HTTP 404
\* for GET /lookup, success false with the not-found error for
\* property_lookup.py) and raises nothing to its caller.
C13_NotFound ==
    /\ \A i \in Requests :
          (Finished(i) /\ reqs[i].nav = "ok" /\ NoAddressContent(pages[i].dom)) =>
              reqs[i].response.status = 404
    /\ (/\ cli.script = "property_lookup"
        /\ cli.extracted
        /\ cli.nav = "ok"
        /\ NoAddressContent(cli.dom)) =>
              /\ ~cli.result.success
              /\ ~cli.traceback
              /\ cli.faults = {} =>
                    cli.result.error = "Address not found for the provided geocode"

\* C14: every address returned in a success is whitespace-normalized: its
\* whitespace runs collapsed to single spaces and none at either end.
C14_Normalized ==
    /\ \A i \in Requests :
          (Finished(i) /\ reqs[i].response.status = 200) =>
              reqs[i].response.address = NormalizeWs(reqs[i].response.address)
    /\ (cli.pc \in {"print", "exit"} /\ cli.result.success) =>
          cli.result.address = NormalizeWs(cli.result.address)

\* the k-th strategy the run consulted is the table of known properties
Hardcoded(k) == cli.attempts[k].strategy = "known"

\* C15: the known-value fallback is the last resort: property_lookup_api.py
\* consults it only as its third strategy, after ArcGIS and after HTTP
\* scraping, both without success; and in every script a hardcoded address
\* is returned only when no other strategy of the run produced an address.
C15_LastResort ==
    /\ (cli.script = "property_lookup_api" /\ cli.pc \in {"print", "exit"}
           /\ cli.lookups = 1) =>
          /\ Len(cli.attempts) \in 1..3
          /\ cli.result.success = cli.attempts[Len(cli.attempts)].success
          /\ \A k \in 1..Len(cli.attempts) :
                Hardcoded(k) =>
                    /\ k = 3
                    /\ cli.attempts[1] = [strategy |-> "arcgis", success |-> FALSE]
                    /\ cli.attempts[2] = [strategy |-> "http", success |-> FALSE]
    /\ \A k \in 1..Len(cli.attempts) :
          (Hardcoded(k) /\ cli.attempts[k].success) =>
              /\ cli.result = Success(KnownAddress, cli.geocode)
              /\ \A j \in 1..Len(cli.attempts) : j # k => ~cli.attempts[j].success

\* a run of property_lookup_api.py that printed the known address after both
\* other strategies had failed
C15_Witness ==
    /\ cli.script = "property_lookup_api"
    /\ cli.pc = "exit"
    /\ Len(cli.attempts) = 3
    /\ cli.attempts[3] = [strategy |-> "known", success |-> TRUE]
    /\ Len(cli.stdout) = 1
    /\ cli.stdout[1] = Success(KnownAddress, KnownGeocode)

====
